---- MODULE Spec2Model ----
(***************************************************************************)
(* A model of rmg/chem.py: the registries of elements, atom types,         *)
(* electron states and bond types, the pairwise equivalence predicates,    *)
(* and the mutable Atom and Bond entities with their single-step           *)
(* transitions of the free-electron count and of the bond order.           *)
(*                                                                         *)
(* Python values are records tagged with their class in the field cls, so  *)
(* that the class tests of the setters (x.__class__ == str, ...) and the   *)
(* identity tests (x is y) are computed, not assumed.  An object of a      *)
(* registry carries the field id, the number of the constructor call that  *)
(* made it within its loader: two objects are the same instance iff they   *)
(* have the same class and id.                                             *)
(***************************************************************************)
EXTENDS Integers, Sequences, FiniteSets, TLC

\* receiver: the object the calls are made on (an Atom, a Bond, or a registry
\*           object); operand: the second object of a binary call; call: the
\*           last call made, with what it returned or raised.
VARIABLES receiver, operand, call

vars == <<receiver, operand, call>>

----------------------------------------------------------------------------
(* Python values *)

None == [cls |-> "NoneType"]

True == [cls |-> "bool", v |-> TRUE]

False == [cls |-> "bool", v |-> FALSE]

Bool(b) == IF b THEN True ELSE False

Str(s) == [cls |-> "str", v |-> s]

Unicode(s) == [cls |-> "unicode", v |-> s]

PyInt(n) == [cls |-> "int", v |-> n]

\* A float, written as its literal: the only one the module uses is 1.5.
PyFloat(lit) == [cls |-> "float", v |-> lit]

List(items) == [cls |-> "list", items |-> items]

\* The key a dictionary files a value under: u'C' and 'C' hash and compare
\* equal in Python 2, every other value is its own key.
DictKey(k) == IF k.cls = "unicode" THEN Str(k.v) ELSE k

EmptyDict == [k \in {} |-> None]

\* d[k1] = d[k2] = ... = obj
Put(d, keys, obj) == [k \in (DOMAIN d) \cup keys |-> IF k \in keys THEN obj ELSE d[k]]

\* The dictionary after the first n assignments of a loader; the n-th
\* constructor call makes the n-th instance.
RECURSIVE Load(_, _)
Load(rows, n) ==
    IF n = 0 THEN EmptyDict
    ELSE Put(Load(rows, n - 1), rows[n].keys, [rows[n].obj EXCEPT !.id = n])

Range(f) == {f[k] : k \in DOMAIN f}

----------------------------------------------------------------------------
(* Element *)

Element(number, name, symbol, mass, valence) ==
    [cls |-> "Element", id |-> 0, number |-> number, name |-> name,
     symbol |-> symbol, mass |-> mass, valence |-> valence]

ElementRows ==
    << [keys |-> {PyInt(0), Str("R")}, obj |-> Element(0, "", "R", "0.0", <<0>>)],
       [keys |-> {PyInt(1), Str("H"), Str("hydrogen")}, obj |-> Element(1, "hydrogen", "H", "0.00100794", <<1>>)],
       [keys |-> {PyInt(2), Str("He"), Str("helium")}, obj |-> Element(2, "helium", "He", "0.004002602", <<0>>)],
       [keys |-> {PyInt(6), Str("C"), Str("carbon")}, obj |-> Element(6, "carbon", "C", "0.0120107", <<4>>)],
       [keys |-> {PyInt(7), Str("N"), Str("nitrogen")}, obj |-> Element(7, "nitrogen", "N", "0.01400674", <<3, 5>>)],
       [keys |-> {PyInt(8), Str("O"), Str("oxygen")}, obj |-> Element(8, "oxygen", "O", "0.0159994", <<2>>)],
       [keys |-> {PyInt(9), Str("F"), Str("fluorine")}, obj |-> Element(9, "fluorine", "F", "0.018998403", <<1>>)],
       [keys |-> {PyInt(10), Str("Ne"), Str("neon")}, obj |-> Element(10, "neon", "Ne", "0.0201797", <<0>>)],
       [keys |-> {PyInt(14), Str("Si"), Str("silicon")}, obj |-> Element(14, "silicon", "Si", "0.0280855", <<4>>)],
       [keys |-> {PyInt(15), Str("P"), Str("phosphorus")}, obj |-> Element(15, "phosphorus", "P", "0.030973761", <<3, 5>>)],
       [keys |-> {PyInt(16), Str("S"), Str("sulfur")}, obj |-> Element(16, "sulfur", "S", "0.032065", <<2, 6>>)],
       [keys |-> {PyInt(17), Str("Cl"), Str("chlorine")}, obj |-> Element(17, "chlorine", "Cl", "0.035453", <<1>>)],
       [keys |-> {PyInt(18), Str("Ar"), Str("argon")}, obj |-> Element(18, "argon", "Ar", "0.039348", <<0>>)],
       [keys |-> {PyInt(35), Str("Br"), Str("bromine")}, obj |-> Element(35, "bromine", "Br", "0.079904", <<1>>)],
       [keys |-> {PyInt(53), Str("I"), Str("iodine")}, obj |-> Element(53, "iodine", "I", "0.12690447", <<1>>)] >>

loadElements == Load(ElementRows, Len(ElementRows))

elements == loadElements

----------------------------------------------------------------------------
(* AtomType *)

AtomType(label, element, description) ==
    [cls |-> "AtomType", id |-> 0, label |-> label, element |-> element,
     description |-> description]

\* One row for each assignment of loadAtomTypes: the key, the label, the key
\* of the element in elements (None where the code passes None), the
\* description.
AtomTypeRows ==
    << <<"H", "H", Str("H"), "hydrogen">>,
       <<"C", "C", Str("C"), "carbon">>,
       <<"N", "N", Str("N"), "nitrogen">>,
       <<"O", "O", Str("O"), "oxygen">>,
       <<"F", "F", Str("F"), "fluorine">>,
       <<"Ne", "Ne", Str("Ne"), "neon">>,
       <<"Si", "Si", Str("Si"), "silicon">>,
       <<"P", "P", Str("P"), "phosphorus">>,
       <<"S", "S", Str("S"), "sulfur">>,
       <<"Cl", "Cl", Str("Cl"), "chlorine">>,
       <<"Ar", "Ar", Str("Ar"), "argon">>,
       <<"Br", "Br", Str("Br"), "bromine">>,
       <<"I", "I", Str("I"), "iodine">>,
       <<"R", "R", None, "generic functional group">>,
       <<"R!H", "R!H", None, "generic non-hydrogen functional group">>,
       <<"Ct", "Ct", Str("C"), "carbon with one triple bond and one single bond">>,
       <<"Cs", "Cs", Str("C"), "carbon with four single bonds">>,
       <<"Cd", "Cd", Str("C"), "carbon with one double bond and two single bonds">>,
       <<"Cdd", "Cdd", Str("C"), "carbon with two double bonds">>,
       <<"Cb", "Cb", Str("C"), "carbon belonging to a benzene ring">>,
       <<"Cbf", "Cbf", Str("C"), "carbon belonging to a fused benzene ring">>,
       <<"CO", "CO", Str("C"), "non-central carbon bonded with a double bond to a non-central oxygen">>,
       <<"Os", "Os", Str("O"), "oxygen with two single bonds">>,
       <<"Od", "Od", Str("O"), "oxygen with one double bond">>,
       <<"Sit", "Sit", Str("Si"), "silicon with one triple bond and one single bond">>,
       <<"Sis", "Sis", Str("Si"), "silicon with four single bonds">>,
       <<"Sid", "Sids", Str("Si"), "silicon with one double bond and two single bonds">>,
       <<"Sidd", "Sidd", Str("Si"), "silicon with two double bonds">>,
       <<"Sib", "Sib", Str("Si"), "silicon belonging to a benzene ring">>,
       <<"Sibf", "Sibf", Str("Si"), "silicon belonging to a fused benzene ring">>,
       <<"SiO", "SiO", Str("Si"), "non-central silicon bonded with a double bond to a non-central oxygen">> >>

\* atomTypes[key] = AtomType(label, elements[...] or None, description)
loadAtomTypes ==
    Load([i \in DOMAIN AtomTypeRows |->
            [keys |-> {Str(AtomTypeRows[i][1])},
             obj |-> AtomType(AtomTypeRows[i][2],
                              IF AtomTypeRows[i][3] = None THEN None
                              ELSE elements[AtomTypeRows[i][3]],
                              AtomTypeRows[i][4])]],
         Len(AtomTypeRows))

atomTypes == loadAtomTypes

----------------------------------------------------------------------------
(* ElectronState *)

ElectronState(label, order, spin) ==
    [cls |-> "ElectronState", id |-> 0, label |-> label, order |-> order,
     spin |-> spin]

ElectronStateRows ==
    << [keys |-> {Str("0")}, obj |-> ElectronState("0", 0, <<1>>)],
       [keys |-> {Str("1")}, obj |-> ElectronState("1", 1, <<2>>)],
       [keys |-> {Str("2")}, obj |-> ElectronState("2", 2, <<1, 3>>)],
       [keys |-> {Str("2S")}, obj |-> ElectronState("2S", 2, <<1>>)],
       [keys |-> {Str("2T")}, obj |-> ElectronState("2T", 2, <<3>>)],
       [keys |-> {Str("3")}, obj |-> ElectronState("3", 3, <<2, 4>>)],
       [keys |-> {Str("4")}, obj |-> ElectronState("4", 4, <<1, 3, 5>>)] >>

loadElectronStates == Load(ElectronStateRows, Len(ElectronStateRows))

electronStates == loadElectronStates

----------------------------------------------------------------------------
(* BondType *)

BondType(label, name, order, piElectrons, location) ==
    [cls |-> "BondType", id |-> 0, label |-> label, name |-> name,
     order |-> order, piElectrons |-> piElectrons, location |-> location]

BondTypeRows ==
    << [keys |-> {PyInt(1), Str("S"), Str("single")}, obj |-> BondType("S", "single", PyInt(1), 0, "")],
       [keys |-> {PyInt(2), Str("D"), Str("double")}, obj |-> BondType("D", "double", PyInt(2), 2, "")],
       [keys |-> {Str("Dcis")}, obj |-> BondType("Dcis", "double_cis", PyInt(2), 2, "cis")],
       [keys |-> {Str("Dtrans")}, obj |-> BondType("Dtrans", "double_trans", PyInt(2), 2, "trans")],
       [keys |-> {PyInt(3), Str("T"), Str("triple")}, obj |-> BondType("T", "triple", PyInt(3), 4, "")],
       [keys |-> {PyFloat("1.5"), Str("B"), Str("benzene")}, obj |-> BondType("B", "benzene", PyFloat("1.5"), 1, "")] >>

loadBondTypes == Load(BondTypeRows, Len(BondTypeRows))

bondTypes == loadBondTypes

----------------------------------------------------------------------------
(* What a call does: it returns a value or raises an exception. *)

Return(v) == [exc |-> "", ret |-> v]

Raise(e) == [exc |-> e, ret |-> None]

----------------------------------------------------------------------------
(* The equivalence predicates of the registry objects *)

\* AtomType.equivalent.  x.element.symbol raises AttributeError when
\* x.element is None; the chained comparison a == b == c evaluates c only
\* when a == b.
\* AtomType.equivalent without the branch for other.label == 'R!H'.
AtomType_equivalent_selfOnly(self, other) ==
    LET exact == Return(Bool(self.label = other.label))
        otherBare ==
            IF other.element = None THEN Raise("AttributeError")
            ELSE IF other.label = other.element.symbol
                    /\ other.element.symbol = self.element.symbol
                 THEN Return(True)
                 ELSE exact
        selfBare ==
            IF self.element = None THEN Raise("AttributeError")
            ELSE IF self.label = self.element.symbol
                 THEN IF other.element = None THEN Raise("AttributeError")
                      ELSE IF self.element.symbol = other.element.symbol
                           THEN Return(True)
                           ELSE otherBare
                 ELSE otherBare
    IN  IF self.label = "R" \/ other.label = "R" THEN Return(True)
        ELSE IF self.label = "R!H"
             THEN (IF other.label # "H" THEN Return(True) ELSE Return(False))
        ELSE selfBare

\* AtomType.equivalent matching a bare element on the left only.
AtomType_equivalent_bareLeft(self, other) ==
    IF self.label = "R" \/ other.label = "R" THEN Return(True)
    ELSE IF self.label = "R!H"
         THEN (IF other.label # "H" THEN Return(True) ELSE Return(False))
    ELSE IF other.label = "R!H"
         THEN (IF self.label # "H" THEN Return(True) ELSE Return(False))
    ELSE IF self.label = self.element.symbol /\ self.element.symbol = other.element.symbol
         THEN Return(True)
    ELSE Return(Bool(self.label = other.label))

AtomType_equivalent(self, other) ==
    LET exact == Return(Bool(self.label = other.label))
        otherBare ==
            IF other.element = None THEN Raise("AttributeError")
            ELSE IF other.label = other.element.symbol
                    /\ other.element.symbol = self.element.symbol
                 THEN Return(True)
                 ELSE exact
        selfBare ==
            IF self.element = None THEN Raise("AttributeError")
            ELSE IF self.label = self.element.symbol
                 THEN IF other.element = None THEN Raise("AttributeError")
                      ELSE IF self.element.symbol = other.element.symbol
                           THEN Return(True)
                           ELSE otherBare
                 ELSE otherBare
    IN  IF self.label = "R" \/ other.label = "R" THEN Return(True)
        ELSE IF self.label = "R!H"
             THEN (IF other.label # "H" THEN Return(True) ELSE Return(False))
        ELSE IF other.label = "R!H"
             THEN (IF self.label # "H" THEN Return(True) ELSE Return(False))
        ELSE selfBare

\* ElectronState.equivalent without its second branch.
ElectronState_equivalent_oneWay(self, other) ==
    IF self.label = "2" /\ (other.label = "2" \/ other.label = "2S" \/ other.label = "2T")
    THEN Return(True)
    ELSE IF self.label = other.label
    THEN Return(True)
    ELSE Return(False)

ElectronState_equivalent(self, other) ==
    IF self.label = "2" /\ (other.label = "2" \/ other.label = "2S" \/ other.label = "2T")
    THEN Return(True)
    ELSE IF (self.label = "2" \/ self.label = "2S" \/ self.label = "2T") /\ other.label = "2"
    THEN Return(True)
    ELSE IF self.label = other.label
    THEN Return(True)
    ELSE Return(False)

\* BondType.equivalent comparing the bond order.
BondType_equivalent_byOrder(self, other) == Return(Bool(self.order = other.order))

BondType_equivalent(self, other) == Return(Bool(self.label = other.label))

----------------------------------------------------------------------------
(* Atom *)

\* The for loop the three setters share (setAtomType, setElectronState,
\* setBondType): a string that is a key of the registry is replaced by the
\* registry's object, an object of the expected class is appended, and
\* anything else raises, leaving the list as far as it was built.
RECURSIVE Candidates(_, _, _, _)
Candidates(registry, class, items, acc) ==
    IF items = <<>> THEN [list |-> acc, exc |-> ""]
    ELSE LET x == Head(items)
             y == IF (x.cls = "str" \/ x.cls = "unicode") /\ DictKey(x) \in DOMAIN registry
                  THEN registry[DictKey(x)]
                  ELSE x
         IN  IF y.cls = class
             THEN Candidates(registry, class, Tail(items), Append(acc, y))
             ELSE [list |-> acc, exc |-> "Exception"]

\* if x.__class__ != list: x = [x]
AsList(x) == IF x.cls # "list" THEN <<x>> ELSE x.items

Atom_setAtomType(self, atomType) ==
    LET r == Candidates(atomTypes, "AtomType", AsList(atomType), <<>>)
    IN  [self |-> [self EXCEPT !._atomType = r.list], exc |-> r.exc, ret |-> None]

Atom_getAtomType(self) ==
    IF Len(self._atomType) = 1 THEN self._atomType[1] ELSE List(self._atomType)

Atom_setElectronState(self, electronState) ==
    LET r == Candidates(electronStates, "ElectronState", AsList(electronState), <<>>)
    IN  [self |-> [self EXCEPT !._electronState = r.list], exc |-> r.exc, ret |-> None]

Atom_getElectronState(self) ==
    IF Len(self._electronState) = 1 THEN self._electronState[1]
    ELSE List(self._electronState)

\* Atom(atomType, electronState, charge, label): the four assignments of
\* __init__ in order; an assignment that raises ends the construction.
Atom_init(atomType, electronState, charge, label) ==
    LET new == [cls |-> "Atom", _atomType |-> <<>>, _electronState |-> <<>>,
                charge |-> 0, label |-> "", connectivity |-> <<0, 0, 0>>]
        r1 == Atom_setAtomType(new, atomType)
        r2 == Atom_setElectronState(r1.self, electronState)
    IN  IF r1.exc # "" THEN r1
        ELSE IF r2.exc # "" THEN r2
        ELSE [self |-> [r2.self EXCEPT !.charge = charge, !.label = label],
              exc |-> "", ret |-> None]

\* self.electronState.label raises AttributeError when the property returns
\* a list (zero or several candidates).
\* Atom.increaseFreeElectron without its '2T' branch.
Atom_increaseFreeElectron_no2T(self) ==
    LET es == Atom_getElectronState(self)
        become(l) == Atom_setElectronState(self, electronStates[Str(l)])
    IN  IF es.cls = "list" THEN [self |-> self, exc |-> "AttributeError", ret |-> None]
        ELSE IF es.label = "0" THEN become("1")
        ELSE IF es.label = "1" THEN become("2")
        ELSE IF es.label = "2" THEN become("3")
        ELSE IF es.label = "2S" THEN become("3")
        ELSE IF es.label = "3" THEN become("4")
        ELSE [self |-> self, exc |-> "InvalidChemicalActionException", ret |-> None]

Atom_increaseFreeElectron(self) ==
    LET es == Atom_getElectronState(self)
        become(l) == Atom_setElectronState(self, electronStates[Str(l)])
    IN  IF es.cls = "list" THEN [self |-> self, exc |-> "AttributeError", ret |-> None]
        ELSE IF es.label = "0" THEN become("1")
        ELSE IF es.label = "1" THEN become("2")
        ELSE IF es.label = "2" THEN become("3")
        ELSE IF es.label = "2S" THEN become("3")
        ELSE IF es.label = "2T" THEN become("3")
        ELSE IF es.label = "3" THEN become("4")
        ELSE [self |-> self, exc |-> "InvalidChemicalActionException", ret |-> None]

\* Atom.decreaseFreeElectron taking 3 to the triplet 2T instead of 2.
Atom_decreaseFreeElectron_toTriplet(self) ==
    LET es == Atom_getElectronState(self)
        become(l) == Atom_setElectronState(self, electronStates[Str(l)])
    IN  IF es.cls = "list" THEN [self |-> self, exc |-> "AttributeError", ret |-> None]
        ELSE IF es.label = "1" THEN become("0")
        ELSE IF es.label = "2" THEN become("1")
        ELSE IF es.label = "2S" THEN become("1")
        ELSE IF es.label = "2T" THEN become("1")
        ELSE IF es.label = "3" THEN become("2T")
        ELSE IF es.label = "4" THEN become("3")
        ELSE [self |-> self, exc |-> "InvalidChemicalActionException", ret |-> None]

Atom_decreaseFreeElectron(self) ==
    LET es == Atom_getElectronState(self)
        become(l) == Atom_setElectronState(self, electronStates[Str(l)])
    IN  IF es.cls = "list" THEN [self |-> self, exc |-> "AttributeError", ret |-> None]
        ELSE IF es.label = "1" THEN become("0")
        ELSE IF es.label = "2" THEN become("1")
        ELSE IF es.label = "2S" THEN become("1")
        ELSE IF es.label = "2T" THEN become("1")
        ELSE IF es.label = "3" THEN become("2")
        ELSE IF es.label = "4" THEN become("3")
        ELSE [self |-> self, exc |-> "InvalidChemicalActionException", ret |-> None]

----------------------------------------------------------------------------
(* Bond *)

Bond_setBondType(self, bondType) ==
    LET r == Candidates(bondTypes, "BondType", AsList(bondType), <<>>)
    IN  [self |-> [self EXCEPT !._bondType = r.list], exc |-> r.exc, ret |-> None]

Bond_getBondType(self) ==
    IF Len(self._bondType) = 1 THEN self._bondType[1] ELSE List(self._bondType)

\* Bond(atoms, bondType): the bond type is assigned first.
Bond_init(atoms, bondType) ==
    LET new == [cls |-> "Bond", _bondType |-> <<>>, atoms |-> <<None, None>>]
        r == Bond_setBondType(new, bondType)
    IN  IF r.exc # "" THEN r
        ELSE [self |-> [r.self EXCEPT !.atoms = atoms], exc |-> "", ret |-> None]

\* self.bondType.order == n; raises AttributeError when the property returns
\* a list.
OrderIs(self, n) ==
    LET bt == Bond_getBondType(self)
    IN  IF bt.cls = "list" THEN Raise("AttributeError") ELSE Return(Bool(bt.order = n))

Bond_isSingle(self) == OrderIs(self, PyInt(1))

\* Bond.isDouble testing the label 'D' instead of the order.
Bond_isDouble_byLabel(self) ==
    LET bt == Bond_getBondType(self)
    IN  IF bt.cls = "list" THEN Raise("AttributeError") ELSE Return(Bool(bt.label = "D"))

Bond_isDouble(self) == OrderIs(self, PyInt(2))

Bond_isTriple(self) == OrderIs(self, PyInt(3))

Bond_isBenzene(self) == OrderIs(self, PyFloat("1.5"))

Bond_increaseOrder(self) ==
    LET become(l) == Bond_setBondType(self, bondTypes[Str(l)])
    IN  IF Bond_isSingle(self).exc # ""
        THEN [self |-> self, exc |-> Bond_isSingle(self).exc, ret |-> None]
        ELSE IF Bond_isSingle(self).ret = True THEN become("D")
        ELSE IF Bond_isDouble(self).ret = True THEN become("T")
        ELSE [self |-> self, exc |-> "InvalidChemicalActionException", ret |-> None]

\* Bond.decreaseOrder whose second branch assigns 'S' again.
Bond_decreaseOrder_toSingle(self) ==
    LET become(l) == Bond_setBondType(self, bondTypes[Str(l)])
    IN  IF Bond_isDouble(self).exc # ""
        THEN [self |-> self, exc |-> Bond_isDouble(self).exc, ret |-> None]
        ELSE IF Bond_isDouble(self).ret = True THEN become("S")
        ELSE IF Bond_isTriple(self).ret = True THEN become("S")
        ELSE [self |-> self, exc |-> "InvalidChemicalActionException", ret |-> None]

Bond_decreaseOrder(self) ==
    LET become(l) == Bond_setBondType(self, bondTypes[Str(l)])
    IN  IF Bond_isDouble(self).exc # ""
        THEN [self |-> self, exc |-> Bond_isDouble(self).exc, ret |-> None]
        ELSE IF Bond_isDouble(self).ret = True THEN become("S")
        ELSE IF Bond_isTriple(self).ret = True THEN become("D")
        ELSE [self |-> self, exc |-> "InvalidChemicalActionException", ret |-> None]

----------------------------------------------------------------------------
(* Equivalence of atoms and of bonds *)

\* Both double loops run to their end (no break), so a pair whose comparison
\* raises is always reached.
\* Atom.equivalent returning (atomTypesMatch or electronStatesMatch).
Atom_equivalent_either(self, other) ==
    LET atomTypesMatch ==
            \E i \in DOMAIN self._atomType : \E j \in DOMAIN other._atomType :
                AtomType_equivalent(self._atomType[i], other._atomType[j]).ret = True
        electronStatesMatch ==
            \E i \in DOMAIN self._electronState : \E j \in DOMAIN other._electronState :
                ElectronState_equivalent(self._electronState[i], other._electronState[j]).ret = True
    IN  Return(Bool(atomTypesMatch \/ electronStatesMatch))

Atom_equivalent(self, other) ==
    LET raised == {AtomType_equivalent(self._atomType[i], other._atomType[j]).exc :
                      i \in DOMAIN self._atomType, j \in DOMAIN other._atomType} \ {""}
        atomTypesMatch ==
            \E i \in DOMAIN self._atomType : \E j \in DOMAIN other._atomType :
                AtomType_equivalent(self._atomType[i], other._atomType[j]).ret = True
        electronStatesMatch ==
            \E i \in DOMAIN self._electronState : \E j \in DOMAIN other._electronState :
                ElectronState_equivalent(self._electronState[i], other._electronState[j]).ret = True
    IN  IF raised # {} THEN Raise(CHOOSE e \in raised : TRUE)
        ELSE Return(Bool(atomTypesMatch /\ electronStatesMatch))

Bond_equivalent(self, other) ==
    Return(Bool(\E i \in DOMAIN self._bondType : \E j \in DOMAIN other._bondType :
                    BondType_equivalent(self._bondType[i], other._bondType[j]).ret = True))

----------------------------------------------------------------------------
(* Inputs *)

\* The longest list handed to a setter or a constructor.
MaxLen == 2

\* All the sequences over S of length at most n.
SeqUpTo(S, n) == UNION {[1..k -> S] : k \in 0..n}

\* A single value of S or a list of at most MaxLen of them (the empty list
\* included: the setters take it).
Args(S) == S \cup {List(q) : q \in SeqUpTo(S, MaxLen)}

\* Atom types as the callers name them: an alias, an object of the registry,
\* and a string that is no key of the registry.
AtomTypeValues == {Str("Cs"), atomTypes[Str("H")], Str("Sids")}

\* Electron states: an alias (unicode), an object, and a value of another class.
ElectronStateValues == {Unicode("2S"), electronStates[Str("1")], PyInt(1)}

\* Bond types: a label, a name, an object, and a numeric bond order.
BondTypeValues == {Str("S"), Str("triple"), bondTypes[Str("Dcis")], PyInt(2)}

Labels == {"", "*1"}

Charges == {0}

\* The two endpoints of a bond: references to atoms of the enclosing graph.
AtomRef(n) == [cls |-> "Atom", ref |-> n]

EndPoints == {<<None, None>>, <<AtomRef(1), AtomRef(2)>>}

ElectronStateLabels == {"0", "1", "2", "2S", "2T", "3", "4"}

BondTypeLabels == {"S", "D", "Dcis", "Dtrans", "T", "B"}

----------------------------------------------------------------------------
(* The entities: one Atom or Bond, constructed, assigned to and stepped *)

Called(op, r) == [op |-> op, exc |-> r.exc, ret |-> r.ret]

\* A resolved atom in any electron state, or a resolved bond of any type.
Init ==
    /\ receiver \in {Atom_init(Str("R"), Str(l), 0, "").self : l \in ElectronStateLabels}
                    \cup {Bond_init(<<None, None>>, Str(l)).self : l \in BondTypeLabels}
    /\ operand = None
    /\ call = [op |-> "__init__", exc |-> "", ret |-> None]

\* x = Atom(...): x is bound to the new atom unless the constructor raises.
\* The electron state is given as one value here; SetElectronState hands in
\* the lists.
NewAtom ==
    \E atomType \in Args(AtomTypeValues), electronState \in ElectronStateValues,
       charge \in Charges, label \in Labels :
        LET r == Atom_init(atomType, electronState, charge, label)
        IN  /\ receiver' = IF r.exc = "" THEN r.self ELSE receiver
            /\ call' = Called("Atom", r)
            /\ UNCHANGED operand

NewBond ==
    \E atoms \in EndPoints, bondType \in Args(BondTypeValues) :
        LET r == Bond_init(atoms, bondType)
        IN  /\ receiver' = IF r.exc = "" THEN r.self ELSE receiver
            /\ call' = Called("Bond", r)
            /\ UNCHANGED operand

\* x.atomType = ...
SetAtomType ==
    /\ receiver.cls = "Atom"
    /\ \E atomType \in Args(AtomTypeValues) :
        LET r == Atom_setAtomType(receiver, atomType)
        IN  /\ receiver' = r.self
            /\ call' = Called("setAtomType", r)
            /\ UNCHANGED operand

SetElectronState ==
    /\ receiver.cls = "Atom"
    /\ \E electronState \in Args(ElectronStateValues) :
        LET r == Atom_setElectronState(receiver, electronState)
        IN  /\ receiver' = r.self
            /\ call' = Called("setElectronState", r)
            /\ UNCHANGED operand

SetBondType ==
    /\ receiver.cls = "Bond"
    /\ \E bondType \in Args(BondTypeValues) :
        LET r == Bond_setBondType(receiver, bondType)
        IN  /\ receiver' = r.self
            /\ call' = Called("setBondType", r)
            /\ UNCHANGED operand

IncreaseFreeElectron ==
    /\ receiver.cls = "Atom"
    /\ LET r == Atom_increaseFreeElectron(receiver)
       IN  /\ receiver' = r.self
           /\ call' = Called("increaseFreeElectron", r)
           /\ UNCHANGED operand

DecreaseFreeElectron ==
    /\ receiver.cls = "Atom"
    /\ LET r == Atom_decreaseFreeElectron(receiver)
       IN  /\ receiver' = r.self
           /\ call' = Called("decreaseFreeElectron", r)
           /\ UNCHANGED operand

IncreaseOrder ==
    /\ receiver.cls = "Bond"
    /\ LET r == Bond_increaseOrder(receiver)
       IN  /\ receiver' = r.self
           /\ call' = Called("increaseOrder", r)
           /\ UNCHANGED operand

DecreaseOrder ==
    /\ receiver.cls = "Bond"
    /\ LET r == Bond_decreaseOrder(receiver)
       IN  /\ receiver' = r.self
           /\ call' = Called("decreaseOrder", r)
           /\ UNCHANGED operand

Next ==
    \/ NewAtom
    \/ NewBond
    \/ SetAtomType
    \/ SetElectronState
    \/ SetBondType
    \/ IncreaseFreeElectron
    \/ DecreaseFreeElectron
    \/ IncreaseOrder
    \/ DecreaseOrder

Spec == Init /\ [][Next]_vars

----------------------------------------------------------------------------
(* Properties of the entities, checked under Spec *)

ResolvedAtom(a) == a.cls = "Atom" /\ Len(a._electronState) = 1

ResolvedBond(b) == b.cls = "Bond" /\ Len(b._bondType) = 1

ChemicalError == "InvalidChemicalActionException"

\* C1, as the claim states it: on a bond whose one type is B, Dcis or Dtrans
\* increaseOrder and decreaseOrder raise the chemical-validity error and
\* leave the bond as it was.
C1_AbsorbingAsClaimed ==
    [][(/\ call'.op \in {"increaseOrder", "decreaseOrder"}
        /\ ResolvedBond(receiver)
        /\ receiver._bondType[1].label \in {"B", "Dcis", "Dtrans"})
       => (call'.exc = ChemicalError /\ receiver' = receiver)]_vars

\* C1, amended: on a bond whose one type is B, increaseOrder and
\* decreaseOrder raise the chemical-validity error and leave the bond as it
\* was, so a B bond stays B; on a Dcis or Dtrans bond, of order 2, they
\* succeed as on D (increaseOrder gives T, decreaseOrder gives S); and no call
\* of either makes a bond B, Dcis or Dtrans.
C1_Absorbing ==
    [][(call'.op \in {"increaseOrder", "decreaseOrder"} /\ receiver.cls = "Bond")
       => /\ (ResolvedBond(receiver) /\ receiver._bondType[1].label = "B")
                => (call'.exc = ChemicalError /\ receiver' = receiver)
          /\ (ResolvedBond(receiver) /\ receiver._bondType[1].label \in {"Dcis", "Dtrans"})
                => /\ call'.exc = ""
                   /\ receiver' = [receiver EXCEPT !._bondType =
                         <<bondTypes[Str(IF call'.op = "increaseOrder" THEN "T" ELSE "S")]>>]
          /\ (receiver' # receiver)
                => \A i \in DOMAIN receiver'._bondType :
                      receiver'._bondType[i].label \notin {"B", "Dcis", "Dtrans"}]_vars

\* A failed increaseOrder on a benzene bond.
C1_Witness ==
    /\ ResolvedBond(receiver)
    /\ receiver._bondType[1].label = "B"
    /\ call.op = "increaseOrder"
    /\ call.exc = ChemicalError

C2_Increase == ("0" :> "1") @@ ("1" :> "2") @@ ("2" :> "3") @@ ("2S" :> "3")
                  @@ ("2T" :> "3") @@ ("3" :> "4")

C2_Decrease == ("1" :> "0") @@ ("2" :> "1") @@ ("2S" :> "1") @@ ("2T" :> "1")
                  @@ ("3" :> "2") @@ ("4" :> "3")

\* C2: on an atom with one electron state, increaseFreeElectron takes 0 to 1,
\* 1 to 2, 2, 2S and 2T to 3, and 3 to 4, decreaseFreeElectron takes 1 to 0,
\* 2, 2S and 2T to 1, 3 to 2 and 4 to 3; increaseFreeElectron at 4 and
\* decreaseFreeElectron at 0 raise the chemical-validity error and leave the
\* atom as it was.
C2_RadicalTransitions ==
    [][(call'.op \in {"increaseFreeElectron", "decreaseFreeElectron"} /\ ResolvedAtom(receiver))
       => LET l == receiver._electronState[1].label
              t == IF call'.op = "increaseFreeElectron" THEN C2_Increase ELSE C2_Decrease
          IN  IF l \in DOMAIN t
              THEN /\ call'.exc = ""
                   /\ receiver' = [receiver EXCEPT
                                     !._electronState = <<electronStates[Str(t[l])]>>]
              ELSE /\ l = (IF call'.op = "increaseFreeElectron" THEN "4" ELSE "0")
                   /\ call'.exc = ChemicalError
                   /\ receiver' = receiver]_vars

\* The fifth increase: increaseFreeElectron has failed on an atom in state 4.
C2_Witness ==
    /\ ResolvedAtom(receiver)
    /\ receiver._electronState[1].label = "4"
    /\ call.op = "increaseFreeElectron"
    /\ call.exc = ChemicalError

\* C16: an increaseFreeElectron or decreaseFreeElectron call on an atom with
\* one electron state leaves it with one electron state of order 0..4; a call
\* that succeeds changes the order by exactly +1 (increase) or -1 (decrease)
\* and a call that fails changes nothing; no call ends in 2S or 2T unless it
\* failed there; from 2S and 2T an increase ends in 3 and a decrease in 1, and
\* the decrease from 3 and the increase from 1 end in 2, so that an increase
\* and a decrease in either order from 2S or 2T end in 2.
C16_CountSteps ==
    [][(call'.op \in {"increaseFreeElectron", "decreaseFreeElectron"} /\ ResolvedAtom(receiver))
       => LET before == receiver._electronState[1]
              after == receiver'._electronState[1]
              up == call'.op = "increaseFreeElectron"
          IN  /\ ResolvedAtom(receiver')
              /\ before.order \in 0..4 /\ after.order \in 0..4
              /\ call'.exc = "" => after.order = before.order + (IF up THEN 1 ELSE -1)
              /\ call'.exc # "" => receiver' = receiver
              /\ after.label \in {"2S", "2T"} => call'.exc # ""
              /\ before.label \in {"2S", "2T"}
                    => call'.exc = "" /\ after.label = (IF up THEN "3" ELSE "1")
              /\ (before.label = "3" /\ ~up) => after.label = "2"
              /\ (before.label = "1" /\ up) => after.label = "2"]_vars

\* The decrease from 3 has ended in 2.
C16_Witness ==
    /\ ResolvedAtom(receiver)
    /\ receiver._electronState[1].label = "2"
    /\ call.op = "decreaseFreeElectron"
    /\ call.exc = ""

C3_Increase == ("S" :> "D") @@ ("D" :> "T")

C3_Decrease == ("T" :> "D") @@ ("D" :> "S")

\* C3: on a bond whose one type is S, D or T, increaseOrder takes S to D and
\* D to T and fails at T, decreaseOrder takes T to D and D to S and fails at
\* S; a failing call raises the chemical-validity error and leaves the bond
\* as it was.
C3_OrderTransitions ==
    [][(/\ call'.op \in {"increaseOrder", "decreaseOrder"}
        /\ ResolvedBond(receiver)
        /\ receiver._bondType[1].label \in {"S", "D", "T"})
       => LET l == receiver._bondType[1].label
              t == IF call'.op = "increaseOrder" THEN C3_Increase ELSE C3_Decrease
          IN  IF l \in DOMAIN t
              THEN /\ call'.exc = ""
                   /\ receiver' = [receiver EXCEPT !._bondType = <<bondTypes[Str(t[l])]>>]
              ELSE /\ call'.exc = ChemicalError
                   /\ receiver' = receiver]_vars

\* The third decrease: decreaseOrder has failed on a single bond.
C3_Witness ==
    /\ ResolvedBond(receiver)
    /\ receiver._bondType[1].label = "S"
    /\ call.op = "decreaseOrder"
    /\ call.exc = ChemicalError

\* C4: the candidate lists of an atom (atom types, electron states) and of a
\* bond (bond types) are never empty.
C4_NonEmptyCandidates ==
    /\ receiver.cls = "Atom"
          => (Len(receiver._atomType) > 0 /\ Len(receiver._electronState) > 0)
    /\ receiver.cls = "Bond" => Len(receiver._bondType) > 0

----------------------------------------------------------------------------
(* The equivalence of registry objects: a pair of objects of one registry, *)
(* and the call of equivalent on it                                        *)

NoCall == [op |-> "", exc |-> "", ret |-> None]

InitTypes ==
    /\ \/ receiver \in Range(atomTypes) /\ operand \in Range(atomTypes)
       \/ receiver \in Range(electronStates) /\ operand \in Range(electronStates)
       \/ receiver \in Range(bondTypes) /\ operand \in Range(bondTypes)
    /\ call = NoCall

AtomTypeEquivalent ==
    /\ receiver.cls = "AtomType" /\ operand.cls = "AtomType"
    /\ call' = Called("AtomType.equivalent", AtomType_equivalent(receiver, operand))
    /\ UNCHANGED <<receiver, operand>>

ElectronStateEquivalent ==
    /\ receiver.cls = "ElectronState" /\ operand.cls = "ElectronState"
    /\ call' = Called("ElectronState.equivalent", ElectronState_equivalent(receiver, operand))
    /\ UNCHANGED <<receiver, operand>>

BondTypeEquivalent ==
    /\ receiver.cls = "BondType" /\ operand.cls = "BondType"
    /\ call' = Called("BondType.equivalent", BondType_equivalent(receiver, operand))
    /\ UNCHANGED <<receiver, operand>>

NextTypes ==
    \/ AtomTypeEquivalent
    \/ ElectronStateEquivalent
    \/ BondTypeEquivalent

SpecTypes == InitTypes /\ [][NextTypes]_vars

\* The ordered rules of the claim, first match wins.
C5_Rules(a, b) ==
    IF a.label = "R" \/ b.label = "R" THEN TRUE
    ELSE IF a.label = "R!H" THEN b.label # "H"
    ELSE IF b.label = "R!H" THEN a.label # "H"
    ELSE IF \/ (a.label = a.element.symbol /\ b.element.symbol = a.element.symbol)
            \/ (b.label = b.element.symbol /\ a.element.symbol = b.element.symbol)
         THEN TRUE
    ELSE a.label = b.label

\* C5: for every pair of seeded atom types, AtomType.equivalent returns what
\* the ordered rules give: true if either label is R; else, if either label is
\* R!H, true unless the other label is H; else true if either is a bare
\* element type and the other has the same element; else true iff the labels
\* are equal.
C5_EquivalentByRules ==
    call.op = "AtomType.equivalent"
        => (call.exc = "" /\ call.ret = Bool(C5_Rules(receiver, operand)))

\* equivalent('R!H', 'H') has returned False.
C5_Witness ==
    /\ call.op = "AtomType.equivalent"
    /\ receiver.label = "R!H" /\ operand.label = "H"
    /\ call.ret = False

\* C6: AtomType.equivalent is reflexive and symmetric over the seeded atom
\* types, and raises on no pair of them.
C6_ReflexiveSymmetric ==
    call.op = "AtomType.equivalent"
        => /\ call.exc = ""
           /\ receiver = operand => call.ret = True
           /\ AtomType_equivalent(operand, receiver) = Return(call.ret)

\* equivalent('Cs', 'C') has returned True, through the bare element on the
\* right; equivalent('C', 'Cs') is decided by the branch before it.
C6_Witness ==
    /\ call.op = "AtomType.equivalent"
    /\ receiver.label = "Cs" /\ operand.label = "C"
    /\ call.ret = True

\* C9: ElectronState.equivalent is true iff the labels are equal, or one label
\* is 2 and the other is 2, 2S or 2T.
C9_ElectronStateEquivalent ==
    call.op = "ElectronState.equivalent"
        => /\ call.exc = ""
           /\ call.ret = Bool(\/ receiver.label = operand.label
                              \/ receiver.label = "2" /\ operand.label \in {"2", "2S", "2T"}
                              \/ operand.label = "2" /\ receiver.label \in {"2", "2S", "2T"})

\* equivalent('2T', '2') has returned True.
C9_Witness ==
    /\ call.op = "ElectronState.equivalent"
    /\ receiver.label = "2T" /\ operand.label = "2"
    /\ call.ret = True

----------------------------------------------------------------------------
(* The equivalence of entities: a pair of atoms or a pair of bonds, each   *)
(* as a constructor leaves it, and the call of equivalent on it            *)

\* The atoms compared: a wildcard and two types of different elements, and
\* two electron states that do not match each other.
EquivAtomTypes == {Str("R"), Str("H"), Str("Cs")}

EquivElectronStates == {Str("2S"), Str("2T")}

EquivAtoms ==
    {Atom_init(List(a), List(e), 0, "").self :
        a \in SeqUpTo(EquivAtomTypes, MaxLen), e \in SeqUpTo(EquivElectronStates, MaxLen)}

EquivBonds ==
    {Bond_init(<<None, None>>, List(b)).self :
        b \in SeqUpTo({Str(l) : l \in BondTypeLabels}, MaxLen)}

InitEquiv ==
    /\ \/ receiver \in EquivAtoms /\ operand \in EquivAtoms
       \/ receiver \in EquivBonds /\ operand \in EquivBonds
    /\ call = NoCall

AtomEquivalent ==
    /\ receiver.cls = "Atom" /\ operand.cls = "Atom"
    /\ call' = Called("Atom.equivalent", Atom_equivalent(receiver, operand))
    /\ UNCHANGED <<receiver, operand>>

BondEquivalent ==
    /\ receiver.cls = "Bond" /\ operand.cls = "Bond"
    /\ call' = Called("Bond.equivalent", Bond_equivalent(receiver, operand))
    /\ UNCHANGED <<receiver, operand>>

NextEquiv ==
    \/ AtomEquivalent
    \/ BondEquivalent

SpecEquiv == InitEquiv /\ [][NextEquiv]_vars

\* Some candidate of xs and some candidate of ys are equivalent under eq.
SomePair(xs, ys, eq(_, _)) ==
    \E i \in DOMAIN xs : \E j \in DOMAIN ys : eq(xs[i], ys[j]) = Return(True)

\* C7: Atom.equivalent is true iff some pair of candidate atom types is
\* AtomType-equivalent and some pair of candidate electron states is
\* ElectronState-equivalent; one of the two alone never gives true.
C7_AtomEquivalent ==
    call.op = "Atom.equivalent"
        => /\ call.exc = ""
           /\ call.ret = True <=>
                 /\ SomePair(receiver._atomType, operand._atomType, AtomType_equivalent)
                 /\ SomePair(receiver._electronState, operand._electronState,
                             ElectronState_equivalent)

\* The wildcard R against H, with electron states 2S and 2T: the atom types
\* match, the electron states do not, and equivalent has returned False.
C7_Witness ==
    /\ call.op = "Atom.equivalent"
    /\ receiver._atomType = <<atomTypes[Str("R")]>> /\ operand._atomType = <<atomTypes[Str("H")]>>
    /\ receiver._electronState = <<electronStates[Str("2S")]>>
    /\ operand._electronState = <<electronStates[Str("2T")]>>
    /\ call.ret = False

\* C8: Bond.equivalent is true iff some candidate bond type of the one and
\* some candidate bond type of the other have the same label; the same order
\* under different labels (D, Dcis, Dtrans) does not make two bonds
\* equivalent.
C8_BondEquivalent ==
    call.op = "Bond.equivalent"
        => /\ call.exc = ""
           /\ call.ret = True <=>
                 \E i \in DOMAIN receiver._bondType : \E j \in DOMAIN operand._bondType :
                     receiver._bondType[i].label = operand._bondType[j].label

\* A D bond against a bond that is Dcis or Dtrans: equivalent has returned
\* False.
C8_Witness ==
    /\ call.op = "Bond.equivalent"
    /\ receiver._bondType = <<bondTypes[Str("D")]>>
    /\ operand._bondType = <<bondTypes[Str("Dcis")], bondTypes[Str("Dtrans")]>>
    /\ call.ret = False

----------------------------------------------------------------------------
(* The registries: the lookups registry[key] *)

\* d[k]
GetItem(d, k) == IF DictKey(k) \in DOMAIN d THEN Return(d[DictKey(k)]) ELSE Raise("KeyError")

\* The keys looked up: every key of a registry and every number, symbol, name
\* and label of an object of a registry.
LookupKeys ==
    (DOMAIN elements) \cup (DOMAIN atomTypes) \cup (DOMAIN electronStates) \cup (DOMAIN bondTypes)
    \cup {PyInt(x.number) : x \in Range(elements)}
    \cup {Str(x.symbol) : x \in Range(elements)}
    \cup {Str(x.name) : x \in Range(elements) \cup Range(bondTypes)}
    \cup {Str(x.label) : x \in Range(atomTypes) \cup Range(electronStates) \cup Range(bondTypes)}
    \cup {x.order : x \in Range(bondTypes)}

InitRegistry ==
    /\ receiver = None
    /\ operand = None
    /\ call = NoCall

LookupElement ==
    \E key \in LookupKeys :
        /\ operand' = key
        /\ call' = Called("elements", GetItem(elements, key))
        /\ UNCHANGED receiver

LookupAtomType ==
    \E key \in LookupKeys :
        /\ operand' = key
        /\ call' = Called("atomTypes", GetItem(atomTypes, key))
        /\ UNCHANGED receiver

LookupElectronState ==
    \E key \in LookupKeys :
        /\ operand' = key
        /\ call' = Called("electronStates", GetItem(electronStates, key))
        /\ UNCHANGED receiver

LookupBondType ==
    \E key \in LookupKeys :
        /\ operand' = key
        /\ call' = Called("bondTypes", GetItem(bondTypes, key))
        /\ UNCHANGED receiver

NextRegistry ==
    \/ LookupAtomType
    \/ LookupElement
    \/ LookupElectronState
    \/ LookupBondType

SpecRegistry == InitRegistry /\ [][NextRegistry]_vars

\* The lookup has returned the instance x.
Found(x) == call.exc = "" /\ call.ret = x

\* C10: for every object x of a registry, the lookup by each of its aliases
\* returns x: elements[x.number], elements[x.symbol] and elements[x.name] for
\* an element, registry[x.label] for an atom type, an electron state and a
\* bond type, and for a bond type every other key it is registered under.
C10_AliasLookup ==
    /\ call.op = "elements"
          => \A x \in Range(elements) :
                operand \in {PyInt(x.number), Str(x.symbol), Str(x.name)} => Found(x)
    /\ call.op = "atomTypes"
          => \A x \in Range(atomTypes) : operand = Str(x.label) => Found(x)
    /\ call.op = "electronStates"
          => \A x \in Range(electronStates) : operand = Str(x.label) => Found(x)
    /\ call.op = "bondTypes"
          => \A x \in Range(bondTypes) :
                (operand = Str(x.label) \/ (operand \in DOMAIN bondTypes /\ bondTypes[operand] = x))
                    => Found(x)

----------------------------------------------------------------------------
(* Construction, and the round trip through __reduce__: the arguments of   *)
(* a constructor call, the entity it makes, the pair (class, arguments)    *)
(* the entity externalizes, and the entity made from that pair             *)

\* The pair (callable, args) that __reduce__ returns and that a constructor
\* call is made from.
Reduced(type, args) == [cls |-> "tuple", type |-> type, args |-> args]

\* Atom.__reduce__ externalizing the first atom type only.
Atom_reduce_firstAtomType(self) ==
    Return(Reduced("Atom", <<self._atomType[1], Atom_getElectronState(self),
                             self.charge, self.label>>))

Atom_reduce(self) ==
    Return(Reduced("Atom", <<Atom_getAtomType(self), Atom_getElectronState(self),
                             self.charge, self.label>>))

Bond_reduce(self) == Return(Reduced("Bond", <<self.atoms, Bond_getBondType(self)>>))

\* type(*args)
Construct(r) ==
    IF r.type = "Atom" THEN Atom_init(r.args[1], r.args[2], r.args[3], r.args[4])
    ELSE Bond_init(r.args[1], r.args[2])

\* A single value of S or a non-empty list of at most MaxLen of them.
NonEmptyArgs(S) == S \cup {List(q) : q \in SeqUpTo(S, MaxLen) \ {<<>>}}

\* Atom types and electron states by alias (str, unicode) and by object.
ConstructAtomTypes == {Str("Cs"), Unicode("Sid"), atomTypes[Str("H")]}

ConstructElectronStates == {Str("1"), Unicode("2S"), electronStates[Str("0")]}

\* Bond types by every key of the registry (label, name, numeric bond order)
\* and by object.
ConstructBondTypes == (DOMAIN bondTypes) \cup Range(bondTypes)

ChargeValues == {0, 1}

InitConstruct ==
    /\ receiver = None
    /\ operand \in
          {Reduced("Atom", <<a, e, c, l>>) :
              a \in NonEmptyArgs(ConstructAtomTypes),
              e \in NonEmptyArgs(ConstructElectronStates),
              c \in ChargeValues, l \in Labels}
          \cup {Reduced("Bond", <<ends, b>>) :
                  ends \in EndPoints, b \in NonEmptyArgs(ConstructBondTypes)}
    /\ call = NoCall

\* x = Atom(...) or x = Bond(...), from the arguments in operand.
ConstructEntity ==
    /\ call = NoCall
    /\ LET r == Construct(operand)
       IN  /\ receiver' = IF r.exc = "" THEN r.self ELSE None
           /\ call' = Called(operand.type, r)
           /\ UNCHANGED operand

\* x.__reduce__()
ReduceEntity ==
    /\ receiver # None
    /\ call.op \in {"Atom", "Bond"}
    /\ call' = Called("__reduce__",
                      IF receiver.cls = "Atom" THEN Atom_reduce(receiver)
                      ELSE Bond_reduce(receiver))
    /\ UNCHANGED <<receiver, operand>>

\* y = type(*args), from the pair __reduce__ returned; operand becomes y.
Reconstruct ==
    /\ call.op = "__reduce__"
    /\ LET r == Construct(call.ret)
       IN  /\ operand' = IF r.exc = "" THEN r.self ELSE None
           /\ call' = Called("reconstruct", r)
           /\ UNCHANGED receiver

NextConstruct ==
    \/ ConstructEntity
    \/ ReduceEntity
    \/ Reconstruct

SpecConstruct == InitConstruct /\ [][NextConstruct]_vars

\* C14: an Atom or a Bond made from non-empty candidates (single or list),
\* externalized by __reduce__ and made again from the externalized pair, is
\* made without exception, is equivalent() to the original, and has the same
\* candidate lists in the same order, the same charge and label (Atom) and
\* the same end points (Bond).
C14_RoundTrip ==
    call.op = "reconstruct"
        => /\ call.exc = ""
           /\ operand.cls = receiver.cls
           /\ receiver.cls = "Atom"
                 => /\ Atom_equivalent(operand, receiver) = Return(True)
                    /\ Atom_equivalent(receiver, operand) = Return(True)
                    /\ operand._atomType = receiver._atomType
                    /\ operand._electronState = receiver._electronState
                    /\ operand.charge = receiver.charge
                    /\ operand.label = receiver.label
           /\ receiver.cls = "Bond"
                 => /\ Bond_equivalent(operand, receiver) = Return(True)
                    /\ operand._bondType = receiver._bondType
                    /\ operand.atoms = receiver.atoms

\* The atom Atom(['Cs', 'Sid'], ['1', '2S'], 1, '*1') made again.
C14_Witness ==
    /\ call.op = "reconstruct"
    /\ receiver.cls = "Atom"
    /\ receiver._atomType = <<atomTypes[Str("Cs")], atomTypes[Str("Sid")]>>
    /\ receiver._electronState = <<electronStates[Str("1")], electronStates[Str("2S")]>>
    /\ receiver.charge = 1
    /\ receiver.label = "*1"
    /\ operand = receiver

\* The registry objects an argument names, in the order given.
Named(registry, class, arg) ==
    [i \in DOMAIN AsList(arg) |->
        IF AsList(arg)[i].cls = class THEN AsList(arg)[i]
        ELSE registry[DictKey(AsList(arg)[i])]]

\* C11: a constructor given, for each of atom type, electron state and bond
\* type, an alias (any key of the registry), an object of the registry or a
\* non-empty list of these, rejects none of them and stores the registry
\* objects they name in the order given.
C11_AcceptsEveryAlias ==
    /\ call.op = "Atom"
          => /\ call.exc = ""
             /\ receiver._atomType = Named(atomTypes, "AtomType", operand.args[1])
             /\ receiver._electronState
                   = Named(electronStates, "ElectronState", operand.args[2])
    /\ call.op = "Bond"
          => /\ call.exc = ""
             /\ receiver._bondType = Named(bondTypes, "BondType", operand.args[2])

----------------------------------------------------------------------------
(* The queries of an Atom and the guards of the transitions *)

\* Atom.isElement without the test of the number of atom types.
Atom_isElement_noLengthTest(self, symbol) ==
    LET at == Atom_getAtomType(self)
    IN  IF at.cls = "list" THEN Raise("AttributeError")
        ELSE IF at.element = None THEN Return(False)
        ELSE IF DictKey(symbol) \notin DOMAIN elements THEN Raise("KeyError")
        ELSE Return(Bool(at.element = elements[DictKey(symbol)]))

Atom_isElement(self, symbol) ==
    IF Len(self._atomType) = 0 \/ Len(self._atomType) > 1 THEN Return(False)
    ELSE IF Atom_getAtomType(self).element = None THEN Return(False)
    ELSE IF DictKey(symbol) \notin DOMAIN elements THEN Raise("KeyError")
    ELSE Return(Bool(Atom_getAtomType(self).element = elements[DictKey(symbol)]))

Atom_isHydrogen(self) == Atom_isElement(self, Str("H"))

Atom_isCarbon(self) == Atom_isElement(self, Str("C"))

Atom_isOxygen(self) == Atom_isElement(self, Str("O"))

\* not self.isHydrogen()
Atom_isNonHydrogen(self) ==
    LET h == Atom_isHydrogen(self)
    IN  IF h.exc # "" THEN h ELSE Return(Bool(h.ret # True))

\* self.electronState.order: a list of electron states has no order.
Atom_getFreeElectronCount(self) ==
    LET es == Atom_getElectronState(self)
    IN  IF es.cls = "list" THEN Raise("AttributeError") ELSE Return(PyInt(es.order))

\* Atom.canIncreaseFreeElectron with the limit of its docstring ("three or
\* fewer") instead of the limit of its code.
Atom_canIncreaseFreeElectron_below3(self) ==
    LET n == Atom_getFreeElectronCount(self)
    IN  IF n.exc # "" THEN n ELSE Return(Bool(n.ret.v < 3))

Atom_canIncreaseFreeElectron(self) ==
    LET n == Atom_getFreeElectronCount(self)
    IN  IF n.exc # "" THEN n ELSE Return(Bool(n.ret.v < 4))

Atom_canDecreaseFreeElectron(self) ==
    LET n == Atom_getFreeElectronCount(self)
    IN  IF n.exc # "" THEN n ELSE Return(Bool(n.ret.v > 0))

\* a() or b()
Or(a, b) == IF a.exc # "" \/ a.ret = True THEN a ELSE b

Bond_canIncreaseOrder(self) == Or(Bond_isSingle(self), Bond_isDouble(self))

Bond_canDecreaseOrder(self) == Or(Bond_isDouble(self), Bond_isTriple(self))

\* Atom types of the queried atoms: an element, an atom type of an element,
\* and the wildcard, which has no element.
QueryAtomTypes == {Str("H"), Str("Cs"), Str("R")}

\* Symbols asked for: two elements and a string that is no key of elements.
QuerySymbols == {Str("H"), Str("C"), Str("Xx")}

InitQueries ==
    /\ receiver \in
          {Atom_init(a, e, 0, "").self :
              a \in Args(QueryAtomTypes),
              e \in {Str(l) : l \in ElectronStateLabels} \cup {List(<<Str("2S"), Str("2T")>>)}}
          \cup {Bond_init(<<None, None>>, b).self :
                  b \in {Str(l) : l \in BondTypeLabels} \cup {List(<<Str("S"), Str("D")>>)}}
    /\ operand = None
    /\ call = NoCall

\* A call on the atom that changes nothing: the result is all there is.
AtomQuery(op, r) ==
    /\ receiver.cls = "Atom"
    /\ call' = Called(op, r)
    /\ UNCHANGED receiver

BondQuery(op, r) ==
    /\ receiver.cls = "Bond"
    /\ call' = Called(op, r)
    /\ UNCHANGED receiver

IsElement ==
    \E symbol \in QuerySymbols :
        /\ AtomQuery("isElement", Atom_isElement(receiver, symbol))
        /\ operand' = symbol

IsHydrogen == AtomQuery("isHydrogen", Atom_isHydrogen(receiver)) /\ UNCHANGED operand

IsCarbon == AtomQuery("isCarbon", Atom_isCarbon(receiver)) /\ UNCHANGED operand

IsOxygen == AtomQuery("isOxygen", Atom_isOxygen(receiver)) /\ UNCHANGED operand

IsNonHydrogen ==
    AtomQuery("isNonHydrogen", Atom_isNonHydrogen(receiver)) /\ UNCHANGED operand

CanIncreaseFreeElectron ==
    /\ AtomQuery("canIncreaseFreeElectron", Atom_canIncreaseFreeElectron(receiver))
    /\ UNCHANGED operand

CanDecreaseFreeElectron ==
    /\ AtomQuery("canDecreaseFreeElectron", Atom_canDecreaseFreeElectron(receiver))
    /\ UNCHANGED operand

CanIncreaseOrder ==
    /\ BondQuery("canIncreaseOrder", Bond_canIncreaseOrder(receiver))
    /\ UNCHANGED operand

CanDecreaseOrder ==
    /\ BondQuery("canDecreaseOrder", Bond_canDecreaseOrder(receiver))
    /\ UNCHANGED operand

NextQueries ==
    \/ IsElement
    \/ IsHydrogen
    \/ IsCarbon
    \/ IsOxygen
    \/ IsNonHydrogen
    \/ CanIncreaseFreeElectron
    \/ CanDecreaseFreeElectron
    \/ CanIncreaseOrder
    \/ CanDecreaseOrder
    \/ IncreaseFreeElectron
    \/ DecreaseFreeElectron
    \/ IncreaseOrder
    \/ DecreaseOrder

SpecQueries == InitQueries /\ [][NextQueries]_vars

AmbiguousAtom(a) == a.cls = "Atom" /\ Len(a._atomType) > 1

ElementQueries == {"isElement", "isHydrogen", "isCarbon", "isOxygen"}

\* C12, as the claim states it: on an atom with more than one atom type,
\* isElement, isHydrogen, isCarbon, isOxygen and isNonHydrogen return False
\* and do not raise.
C12_AllFalseAsClaimed ==
    (AmbiguousAtom(receiver) /\ call.op \in ElementQueries \cup {"isNonHydrogen"})
        => (call.exc = "" /\ call.ret = False)

\* C12: on an atom with more than one atom type, isElement, isHydrogen,
\* isCarbon and isOxygen return False, isNonHydrogen (the negation of
\* isHydrogen) returns True, and none of them raises.
C12_AmbiguousQueries ==
    /\ (AmbiguousAtom(receiver) /\ call.op \in ElementQueries)
          => (call.exc = "" /\ call.ret = False)
    /\ (AmbiguousAtom(receiver) /\ call.op = "isNonHydrogen")
          => (call.exc = "" /\ call.ret = True)

C12_Witness ==
    /\ AmbiguousAtom(receiver)
    /\ receiver._atomType[1].label = "H"
    /\ call.op = "isNonHydrogen"
    /\ call.ret = True

\* The guard answered op1 on the receiver and the next step is the transition
\* op2 on it: the guard said True exactly if the transition does not raise.
Predicts(op1, op2) ==
    (call.op = op1 /\ call'.op = op2)
        => /\ call.exc = ""
           /\ call.ret \in {True, False}
           /\ call.ret = True <=> call'.exc = ""
           /\ call.ret = False <=> call'.exc = ChemicalError

----------------------------------------------------------------------------
(* copy(): the source x and its copy y as objects of a heap.  receiver is  *)
(* the heap, the sequence of the entities made; operand binds the names x  *)
(* and y to objects of it (0: not bound) and names in `on' the one the     *)
(* last call was made on.  The candidate lists are values of an entity:    *)
(* every assignment through a setter binds a list made anew                *)
(* (self._atomType = []), so no list is ever held by two entities.         *)

\* Atom.copy returning the atom itself.
Atom_copy_sameObject(heap, ref) == [heap |-> heap, exc |-> "", ret |-> ref]

\* Atom(self.atomType, self.electronState, self.charge, self.label): a new
\* object, made from what the property getters return.
Atom_copy(heap, ref) ==
    LET self == heap[ref]
        r == Atom_init(Atom_getAtomType(self), Atom_getElectronState(self),
                       self.charge, self.label)
    IN  IF r.exc # "" THEN [heap |-> heap, exc |-> r.exc, ret |-> 0]
        ELSE [heap |-> Append(heap, r.self), exc |-> "", ret |-> Len(heap) + 1]

\* Bond(self.atoms, self.bondType)
Bond_copy(heap, ref) ==
    LET self == heap[ref]
        r == Bond_init(self.atoms, Bond_getBondType(self))
    IN  IF r.exc # "" THEN [heap |-> heap, exc |-> r.exc, ret |-> 0]
        ELSE [heap |-> Append(heap, r.self), exc |-> "", ret |-> Len(heap) + 1]

CopyAtomTypes == {Str("Cs"), Str("H")}

CopyBondTypes == {Str("S"), Str("B")}

InitCopy ==
    /\ \E x \in {Atom_init(a, e, c, "*1").self :
                    a \in NonEmptyArgs(CopyAtomTypes),
                    e \in {Str(l) : l \in ElectronStateLabels} \cup {List(<<Str("2S"), Str("2T")>>)},
                    c \in ChargeValues}
                \cup {Bond_init(ends, b).self :
                        ends \in EndPoints,
                        b \in {Str(l) : l \in BondTypeLabels} \cup NonEmptyArgs(CopyBondTypes)} :
          receiver = <<x>>
    /\ operand = [x |-> 1, y |-> 0, on |-> "x"]
    /\ call = NoCall

\* y = x.copy()
CopyEntity ==
    /\ operand.y = 0
    /\ LET r == IF receiver[operand.x].cls = "Atom" THEN Atom_copy(receiver, operand.x)
                ELSE Bond_copy(receiver, operand.x)
       IN  /\ receiver' = r.heap
           /\ operand' = [operand EXCEPT !.y = r.ret, !.on = "x"]
           /\ call' = [op |-> "copy", exc |-> r.exc, ret |-> None]

\* The four transitions, by name.
Transition(op, self) ==
    CASE op = "increaseFreeElectron" -> Atom_increaseFreeElectron(self)
      [] op = "decreaseFreeElectron" -> Atom_decreaseFreeElectron(self)
      [] op = "increaseOrder" -> Bond_increaseOrder(self)
      [] op = "decreaseOrder" -> Bond_decreaseOrder(self)

TransitionsOf(self) ==
    IF self.cls = "Atom" THEN {"increaseFreeElectron", "decreaseFreeElectron"}
    ELSE {"increaseOrder", "decreaseOrder"}

\* name.op(), where name is x or y: the object the name is bound to changes.
CallOn(name) ==
    \E op \in TransitionsOf(receiver[operand[name]]) :
        LET r == Transition(op, receiver[operand[name]])
        IN  /\ receiver' = [receiver EXCEPT ![operand[name]] = r.self]
            /\ operand' = [operand EXCEPT !.on = name]
            /\ call' = Called(op, r)

\* After the copy, the calls are made on x and on y in any order.
CallOnSource ==
    /\ operand.y # 0
    /\ CallOn("x")

CallOnCopy ==
    /\ operand.y # 0
    /\ CallOn("y")

NextCopy ==
    \/ CopyEntity
    \/ CallOnSource
    \/ CallOnCopy

SpecCopy == InitCopy /\ [][NextCopy]_vars

\* C13: x.copy() on an atom or a bond with one or more candidates does not
\* raise and makes an entity equivalent to x with the candidates, charge and
\* label (atom) or the candidates and end points (bond) of x; after it, an
\* increaseFreeElectron, decreaseFreeElectron, increaseOrder or decreaseOrder
\* call on the copy leaves x as it was and such a call on x leaves the copy
\* as it was.
C13_CopyIndependent ==
    [][/\ call'.op = "copy"
            => LET x == receiver'[operand'.x]
                   y == receiver'[operand'.y]
               IN  /\ call'.exc = ""
                   /\ x = receiver[operand.x]
                   /\ y.cls = x.cls
                   /\ x.cls = "Atom"
                         => /\ Atom_equivalent(y, x) = Return(True)
                            /\ Atom_equivalent(x, y) = Return(True)
                            /\ y._atomType = x._atomType
                            /\ y._electronState = x._electronState
                            /\ y.charge = x.charge /\ y.label = x.label
                   /\ x.cls = "Bond"
                         => /\ Bond_equivalent(y, x) = Return(True)
                            /\ y._bondType = x._bondType
                            /\ y.atoms = x.atoms
       /\ call'.op \in {"increaseFreeElectron", "decreaseFreeElectron",
                        "increaseOrder", "decreaseOrder"}
            => /\ operand'.on = "y" => receiver'[operand.x] = receiver[operand.x]
               /\ operand'.on = "x" => receiver'[operand.y] = receiver[operand.y]]_vars

\* The copy of an atom in state 1 has been increased twice and the source
\* decreased once: the copy is in state 3, the source in state 0.
C13_Witness ==
    /\ operand.y # 0
    /\ receiver[operand.x].cls = "Atom"
    /\ receiver[operand.x]._electronState = <<electronStates[Str("0")]>>
    /\ receiver[operand.y]._electronState = <<electronStates[Str("3")]>>
    /\ call.op = "decreaseFreeElectron"
    /\ operand.on = "x"
    /\ call.exc = ""

====
